---- MODULE Spec2Model ----
(***************************************************************************)
(* Free-text aggregation and clustering engine of the survey processor     *)
(* (TextAggregator in scripts/FINAI-95/aiProcessorUI.js) together with the *)
(* consuming prompt stage (PromptBuilder.buildCategoryPrompt).             *)
(*                                                                         *)
(* Strings are TLA+ strings; a character is a string of length one.        *)
(* Fractions are kept exact as pairs <<numerator, denominator>>.           *)
(***************************************************************************)
EXTENDS Integers, Sequences, FiniteSets, TLC

(***************************************************************************)
(* JavaScript string primitives used by the aggregator.                    *)
(***************************************************************************)
Ch(s, i) == SubSeq(s, i, i)

UpperLetters == "ABCDEFGHIJKLMNOPQRSTUVWXYZ"
LowerLetters == "abcdefghijklmnopqrstuvwxyz"
Digits == "0123456789"

CharsOf(s) == {Ch(s, i) : i \in 1..Len(s)}

\* \s of a JavaScript regular expression, and the characters trim() strips
IsSpace(c) == c \in {" ", "\t", "\n", "\r"}

\* \w of a JavaScript regular expression
WordChars == CharsOf(UpperLetters) \cup CharsOf(LowerLetters) \cup CharsOf(Digits) \cup {"_"}
IsWordChar(c) == c \in WordChars

LowerTable == [c \in CharsOf(UpperLetters) |->
                 Ch(LowerLetters, CHOOSE i \in 1..26 : Ch(UpperLetters, i) = c)]
LowerCh(c) == IF c \in DOMAIN LowerTable THEN LowerTable[c] ELSE c

\* the least and the greatest element of a non-empty set of integers
Least(S) == CHOOSE m \in S : \A x \in S : m <= x
Greatest(S) == CHOOSE m \in S : \A x \in S : m >= x
\* the elements of a set of integers in increasing order
Ascending(S) ==
  [k \in 1..Cardinality(S) |-> CHOOSE p \in S : Cardinality({q \in S : q < p}) = k - 1]

RECURSIVE ConcatRange(_, _, _)
\* pieces[a] \o ... \o pieces[b], for a <= b
ConcatRange(pieces, a, b) ==
  IF a = b THEN pieces[a]
  ELSE ConcatRange(pieces, a, (a + b) \div 2) \o ConcatRange(pieces, ((a + b) \div 2) + 1, b)
\* the string made of a piece per position
Concat(pieces) == IF Len(pieces) = 0 THEN "" ELSE ConcatRange(pieces, 1, Len(pieces))

\* String.prototype.toLowerCase
ToLowerCase(s) == IF s = "" THEN s ELSE Concat([i \in 1..Len(s) |-> LowerCh(Ch(s, i))])

\* String.prototype.trim
Trim(s) ==
  IF s = "" THEN s
  ELSE LET inked == {i \in 1..Len(s) : ~IsSpace(Ch(s, i))}
       IN  IF inked = {} THEN "" ELSE SubSeq(s, Least(inked), Greatest(inked))

\* s.split(/\s+/): the pieces between maximal runs of whitespace, the empty
\* pieces before a leading and after a trailing run included
SplitWs(s) ==
  LET n == Len(s)
      starts == {i \in 1..n : ~IsSpace(Ch(s, i)) /\ (i = 1 \/ IsSpace(Ch(s, i - 1)))}
      EndOf(i) == Least({j \in i..n : j = n \/ IsSpace(Ch(s, j + 1))})
      ordered == Ascending(starts)
      words == [k \in 1..Len(ordered) |-> SubSeq(s, ordered[k], EndOf(ordered[k]))]
  IN  IF n = 0 THEN <<"">>
      ELSE (IF IsSpace(Ch(s, 1)) THEN <<"">> ELSE <<>>) \o words
           \o (IF IsSpace(Ch(s, n)) THEN <<"">> ELSE <<>>)

\* s.split(sep) for a separator of one character
SplitChar(s, sep) ==
  LET n == Len(s)
      cuts == Ascending({i \in 1..n : Ch(s, i) = sep})
      From(k) == IF k = 1 THEN 1 ELSE cuts[k - 1] + 1
      To(k) == IF k > Len(cuts) THEN n ELSE cuts[k] - 1
  IN  [k \in 1..(Len(cuts) + 1) |-> SubSeq(s, From(k), To(k))]

RECURSIVE JoinFrom(_, _, _)
JoinFrom(ws, sep, i) ==
  IF i > Len(ws) THEN ""
  ELSE IF i = Len(ws) THEN ws[i] ELSE ws[i] \o sep \o JoinFrom(ws, sep, i + 1)
\* Array.prototype.join
Join(ws, sep) == JoinFrom(ws, sep, 1)

Range(q) == {q[i] : i \in 1..Len(q)}
\* the sequence q with its elements computed once
Materialized(q) == q \o <<>>
\* Array.prototype.includes
Includes(q, x) == \E i \in 1..Len(q) : q[i] = x

\* [...new Set(q)]: the first occurrence of each element, in order
Dedup(q) ==
  LET first == Ascending({i \in 1..Len(q) : \A j \in 1..(i - 1) : q[j] # q[i]})
  IN  [k \in 1..Len(first) |-> q[first[k]]]

\* s.substring(0, n)
Prefix(s, n) == SubSeq(s, 1, IF n < Len(s) THEN n ELSE Len(s))

\* sub occurs in s at position i
OccursAt(s, sub, i) == i >= 1 /\ i + Len(sub) - 1 <= Len(s) /\ SubSeq(s, i, i + Len(sub) - 1) = sub

\* s.indexOf(sub, from), 1-based, 0 when absent
IndexOfFrom(s, sub, from) ==
  LET hits == {i \in from..(Len(s) - Len(sub) + 1) : OccursAt(s, sub, i)}
  IN  IF hits = {} THEN 0 ELSE Least(hits)

\* s.lastIndexOf(c) for one character, 1-based, 0 when absent (JavaScript: -1)
LastIndexOf(s, c) ==
  LET hits == {i \in 1..Len(s) : Ch(s, i) = c}
  IN  IF hits = {} THEN 0 ELSE Greatest(hits)

\* \b of a regular expression between positions i-1 and i of s
Boundary(s, i) ==
  LET before == i > 1 /\ IsWordChar(Ch(s, i - 1))
      after  == i <= Len(s) /\ IsWordChar(Ch(s, i))
  IN  before # after

Max2(a, b) == IF a >= b THEN a ELSE b

(***************************************************************************)
(* Values of a survey record.  typeof decides what the aggregator does     *)
(* with a cell: a string cell carries its text in s.                       *)
(***************************************************************************)
Str(s) == [t |-> "string", s |-> s]
Num(s) == [t |-> "number", s |-> s]
Null   == [t |-> "null", s |-> ""]

(***************************************************************************)
(* TextAggregator.isValidTextResponse                                      *)
(***************************************************************************)
MinTextLength == 8

AllOf(s, c) == Len(s) >= 1 /\ \A i \in 1..Len(s) : Ch(s, i) = c

\* invalidPatterns.some(pattern => pattern.test(normalized)), one disjunct
\* per regular expression of the list, in its order
MatchesInvalidPattern(normalized) ==
  \/ normalized \in {"na", "n/a"}
  \/ normalized = "none"
  \/ normalized = "no"
  \/ normalized = "nothing"
  \/ normalized = "nil"
  \/ AllOf(normalized, "-")
  \/ AllOf(normalized, ".")
  \/ normalized = "na"
  \/ normalized = "not applicable"
  \/ normalized = "no comment"
  \/ normalized = "nope"
  \/ normalized = "nada"

\* isValidTextResponse with >= for > on line 1448
isValidTextResponseFromEight(value) ==
  IF value.t # "string" THEN FALSE
  ELSE LET normalized == Trim(ToLowerCase(value.s))
       IN  IF MatchesInvalidPattern(normalized) THEN FALSE
           ELSE Len(Trim(value.s)) >= MinTextLength

isValidTextResponse(value) ==
  IF value.t # "string" THEN FALSE
  ELSE LET normalized == Trim(ToLowerCase(value.s))
       IN  IF MatchesInvalidPattern(normalized) THEN FALSE
           ELSE Len(Trim(value.s)) > MinTextLength

(***************************************************************************)
(* TextAggregator.enhancedCleanTextResponse                                *)
(***************************************************************************)
CleanMaxLength == 500
SentenceEndAfter == 400

\* the last index of the run of letters c (either case) that starts at k,
\* k - 1 when s has no c at k
RunEnd(s, c, k) ==
  Least({j \in k..(Len(s) + 1) : j = Len(s) + 1 \/ LowerCh(Ch(s, j)) # c}) - 1

\* the end of a match of /\b<a><b>+\b/gi that starts at i, 0 when none
FillerMatchEnd(s, a, b, i) ==
  IF LowerCh(Ch(s, i)) = a /\ Boundary(s, i)
  THEN LET j == RunEnd(s, b, i + 1)
       IN  IF j >= i + 1 /\ Boundary(s, j + 1) THEN j ELSE 0
  ELSE 0

\* cleaned.replace(/\b<a><b>+\b/gi, ''): a match is a whole word, so matches
\* never overlap and the scan finds each of them
RemoveFiller(s, a, b) ==
  IF s = "" THEN s
  ELSE LET matches == {i \in 1..Len(s) : FillerMatchEnd(s, a, b, i) > 0}
           Matched(i) == \E m \in matches : m <= i /\ i <= FillerMatchEnd(s, a, b, m)
       IN  Concat([i \in 1..Len(s) |-> IF Matched(i) THEN "" ELSE Ch(s, i)])

\* cleaned.replace(/\s{2,}/g, by): each maximal run of two or more
\* whitespace characters becomes by
ReplaceSpaceRuns(s, by) ==
  IF s = "" THEN s
  ELSE LET SpaceAt(i) == i >= 1 /\ i <= Len(s) /\ IsSpace(Ch(s, i))
           InRun(i) == SpaceAt(i) /\ (SpaceAt(i - 1) \/ SpaceAt(i + 1))
       IN  Concat([i \in 1..Len(s) |->
                     IF InRun(i) THEN (IF SpaceAt(i - 1) THEN "" ELSE by) ELSE Ch(s, i)])

\* minimalFillers.forEach: the test pattern === /\s{2,}/g compares the array's
\* regular expression object with a new one and is never true, so the
\* whitespace pattern takes the else branch like the fillers: replaced by ''
StripFillers(s) ==
  ReplaceSpaceRuns(RemoveFiller(RemoveFiller(RemoveFiller(s, "u", "h"), "u", "m"), "e", "r"), "")

\* the length cap of lines 1206-1220 (lastIndexOf is 0-based in the source)
CapLength(cleaned) ==
  IF Len(cleaned) > CleanMaxLength
  THEN LET truncated == Prefix(cleaned, CleanMaxLength)
           lastSentenceEnd == Max2(Max2(LastIndexOf(truncated, "."),
                                        LastIndexOf(truncated, "!")),
                                   LastIndexOf(truncated, "?")) - 1
       IN  IF lastSentenceEnd > SentenceEndAfter
           THEN Prefix(truncated, lastSentenceEnd + 1)
           ELSE truncated
  ELSE cleaned

enhancedCleanTextResponse(text) == CapLength(Trim(StripFillers(Trim(text))))

(***************************************************************************)
(* TextAggregator.normalizeForClustering                                   *)
(***************************************************************************)
normalizations ==
  << <<"mgmt", "management">>, <<"mgr", "manager">>, <<"comm", "communication">>,
     <<"dev", "development">>, <<"info", "information">>, <<"tech", "technology">>,
     <<"sys", "system">>, <<"proc", "process">>, <<"dept", "department">>,
     <<"org", "organization">> >>

\* normalized.replace(new RegExp(`\\b${short}\\b`, 'g'), full): a match is a
\* whole word, so matches never overlap and the scan finds each of them
ReplaceWord(s, short, full) ==
  LET matches == {i \in 1..Len(s) :
                    OccursAt(s, short, i) /\ Boundary(s, i) /\ Boundary(s, i + Len(short))}
  IN  IF matches = {} THEN s
      ELSE Concat([i \in 1..Len(s) |->
                     IF i \in matches THEN full
                     ELSE IF \E m \in matches : m < i /\ i < m + Len(short) THEN ""
                          ELSE Ch(s, i)])

RECURSIVE NormalizeFrom(_, _)
\* Object.entries(normalizations).forEach from entry k on; an empty text has
\* nothing to replace
NormalizeFrom(s, k) ==
  IF s = "" \/ k > Len(normalizations) THEN s
  ELSE NormalizeFrom(ReplaceWord(s, normalizations[k][1], normalizations[k][2]), k + 1)

normalizeForClustering(text) == NormalizeFrom(ToLowerCase(text), 1)

(***************************************************************************)
(* TextAggregator.extractSemanticTokens                                    *)
(***************************************************************************)
ImportantWordMinLength == 5
ImportantWordCount == 3

semanticCategories ==
  << <<"communication", <<"communication", "talk", "discuss", "share", "inform", "update", "meeting", "feedback", "transparency">> >>,
     <<"tools", <<"tools", "software", "system", "technology", "platform", "equipment", "resources", "application">> >>,
     <<"development", <<"training", "learning", "development", "skills", "education", "growth", "course", "mentor">> >>,
     <<"process", <<"process", "procedure", "workflow", "efficiency", "streamline", "bureaucracy", "red_tape">> >>,
     <<"management", <<"management", "manager", "leadership", "supervisor", "boss", "lead", "director">> >>,
     <<"culture", <<"culture", "environment", "atmosphere", "team", "collaboration", "morale", "values">> >>,
     <<"recognition", <<"recognition", "appreciate", "acknowledge", "reward", "praise", "thanks", "credit">> >>,
     <<"autonomy", <<"autonomy", "freedom", "decision", "empowered", "control", "choice", "independence">> >>,
     <<"workload", <<"workload", "busy", "overwhelmed", "balance", "time", "bandwidth", "capacity", "stress">> >>,
     <<"clarity", <<"clarity", "clear", "understand", "direction", "goals", "expectations", "vision", "purpose">> >> >>

importantStoplist == {"better", "would", "could", "should", "really", "think"}

\* keywords.some(keyword => words.includes(keyword))
SomeKeyword(keywords, wordSet) == \E k \in 1..Len(keywords) : keywords[k] \in wordSet

extractSemanticTokens(text) ==
  LET words == SplitWs(ToLowerCase(text))
      wordSet == Range(words)
      IsCat(c) == SomeKeyword(c[2], wordSet)
      cats == SelectSeq(semanticCategories, IsCat)
      catTokens == [i \in 1..Len(cats) |-> cats[i][1]]
      IsImportant(w) == Len(w) > ImportantWordMinLength /\ w \notin importantStoplist
      importantWords == SelectSeq(words, IsImportant)
  IN  Dedup(catTokens \o SubSeq(importantWords, 1,
                                IF Len(importantWords) < ImportantWordCount
                                THEN Len(importantWords) ELSE ImportantWordCount))

(***************************************************************************)
(* TextAggregator.enhancedExtractTheme                                     *)
(***************************************************************************)
MeaningfulWordMinLength == 4
MeaningfulWordCount == 2

themeKeywords ==
  << <<"communication_transparency", <<"communication", "communicate", "talk", "discuss", "share", "inform", "update", "transparency", "information", "feedback", "meeting", "clarity", "clear">> >>,
     <<"tools_technology", <<"tools", "software", "system", "technology", "equipment", "resources", "platform", "application", "technical", "tech", "digital", "infrastructure">> >>,
     <<"training_development", <<"training", "learn", "development", "skills", "education", "growth", "course", "mentor", "knowledge", "professional", "career", "advancement">> >>,
     <<"recognition_appreciation", <<"recognition", "appreciate", "acknowledge", "reward", "praise", "thanks", "credit", "valued", "recognized", "celebration">> >>,
     <<"autonomy_empowerment", <<"autonomy", "freedom", "decision", "empowered", "control", "choice", "independence", "empower", "decisions", "authority", "ownership">> >>,
     <<"process_efficiency", <<"process", "procedure", "workflow", "efficiency", "streamline", "bureaucracy", "improve", "optimization", "faster", "easier", "simple">> >>,
     <<"leadership_management", <<"leadership", "management", "manager", "leader", "supervisor", "boss", "direction", "guidance", "support", "lead">> >>,
     <<"workload_balance", <<"workload", "busy", "overwhelmed", "balance", "time", "bandwidth", "capacity", "stress", "pressure", "deadline", "priorities">> >>,
     <<"culture_environment", <<"culture", "environment", "atmosphere", "team", "collaboration", "morale", "workplace", "office", "culture", "values", "belonging">> >>,
     <<"compensation_benefits", <<"compensation", "salary", "pay", "benefits", "money", "raise", "bonus", "financial", "wage", "income", "cost_of_living">> >>,
     <<"remote_flexibility", <<"remote", "hybrid", "home", "office", "flexible", "flexibility", "location", "commute", "work_from_home", "telework">> >> >>

meaningfulStoplist ==
  {"would", "could", "should", "more", "better", "need", "want", "really", "think", "feel"}

\* keywords.filter(keyword => words.includes(keyword)).length
KeywordMatches(keywords, wordSet) ==
  Cardinality({k \in 1..Len(keywords) : keywords[k] \in wordSet})

\* matches + (keywords.some(k => words.includes(k)) ? 1 : 0)
ThemeScore(keywords, wordSet) ==
  KeywordMatches(keywords, wordSet) + (IF SomeKeyword(keywords, wordSet) THEN 1 ELSE 0)

RECURSIVE BestThemeFrom(_, _, _, _)
\* the forEach of lines 1397-1405: a later theme wins only with a greater score
BestThemeFrom(wordSet, k, bestTheme, bestScore) ==
  IF k > Len(themeKeywords) THEN <<bestTheme, bestScore>>
  ELSE LET score == ThemeScore(themeKeywords[k][2], wordSet)
       IN  IF score > bestScore
           THEN BestThemeFrom(wordSet, k + 1, themeKeywords[k][1], score)
           ELSE BestThemeFrom(wordSet, k + 1, bestTheme, bestScore)

\* enhancedExtractTheme without the stoplist test of line 1411
enhancedExtractThemeAnyLongWord(text) ==
  LET words == SplitWs(ToLowerCase(text))
      best == BestThemeFrom(Range(words), 1, "other", 0)
      IsMeaningful(w) == Len(w) > MeaningfulWordMinLength
      meaningfulWords == SelectSeq(words, IsMeaningful)
  IN  IF best[1] = "other" /\ best[2] = 0 /\ Len(meaningfulWords) > 0
      THEN Join(SubSeq(meaningfulWords, 1,
                       IF Len(meaningfulWords) < MeaningfulWordCount
                       THEN Len(meaningfulWords) ELSE MeaningfulWordCount), "_")
      ELSE best[1]

enhancedExtractTheme(text) ==
  LET words == SplitWs(ToLowerCase(text))
      best == BestThemeFrom(Range(words), 1, "other", 0)
      IsMeaningful(w) == Len(w) > MeaningfulWordMinLength /\ w \notin meaningfulStoplist
      meaningfulWords == SelectSeq(words, IsMeaningful)
  IN  IF best[1] = "other" /\ best[2] = 0 /\ Len(meaningfulWords) > 0
      THEN Join(SubSeq(meaningfulWords, 1,
                       IF Len(meaningfulWords) < MeaningfulWordCount
                       THEN Len(meaningfulWords) ELSE MeaningfulWordCount), "_")
      ELSE best[1]

(***************************************************************************)
(* The three similarities; a fraction n/d is the pair <<n, d>>, d > 0.     *)
(***************************************************************************)
\* lines 1246-1251 on the two token sets
JaccardOfTokens(tokens1, tokens2) ==
  IF tokens1 = {} \/ tokens2 = {} THEN <<0, 1>>
  ELSE <<Cardinality(tokens1 \cap tokens2), Cardinality(tokens1 \cup tokens2)>>

calculateJaccardSimilarity(text1, text2) ==
  JaccardOfTokens(Range(SplitWs(text1)), Range(SplitWs(text2)))

calculateSemanticSimilarity(tokens1, tokens2) ==
  IF Len(tokens1) = 0 \/ Len(tokens2) = 0 THEN <<0, 1>>
  ELSE <<Cardinality(Range(tokens1) \cap Range(tokens2)),
         Cardinality(Range(tokens1) \cup Range(tokens2))>>

\* lines 1270-1278 on the two theme labels
SimilarityOfThemes(theme1, theme2) ==
  LET words1 == SplitChar(theme1, "_")
      words2 == SplitChar(theme2, "_")
      overlap == Cardinality({i \in 1..Len(words1) : Includes(words2, words1[i])})
      maxLength == Max2(Len(words1), Len(words2))
  IN  IF theme1 = theme2 THEN <<1, 1>>
      ELSE IF maxLength > 0 THEN <<overlap, maxLength>> ELSE <<0, 1>>

calculateThemeSimilarity(text1, text2) ==
  SimilarityOfThemes(enhancedExtractTheme(text1), enhancedExtractTheme(text2))

\* the weights and the threshold of lines 1068-1074, in hundredths
JaccardWeight == 30
SemanticWeight == 40
ThemeWeight == 30
AbsorbThreshold == 45

\* jaccard * 0.3 + semantic * 0.4 + theme * 0.3 > 0.45, cross-multiplied
RECURSIVE GCD(_, _)
GCD(a, b) == IF b = 0 THEN a ELSE GCD(b, a % b)

\* the quotient of line 1251, 1263 or 1278 in lowest terms: the double that
\* the division yields depends on the quotient alone
LowestTerms(f) == LET g == GCD(f[1], f[2]) IN <<f[1] \div g, f[2] \div g>>

\* lines 1068-1071 add three doubles. The triples (jaccard, semantic, theme)
\* whose exact weighted sum is 0.45 and whose sum in IEEE-754 doubles,
\* (j * 0.3) + (s * 0.4) + (t * 0.3), is 0.45000000000000007; the other
\* triples of exact sum 0.45 give 0.45 or 0.44999999999999996. Listed for
\* denominators up to 20 (jaccard), 12 (semantic) and 4 (theme).
RoundedAboveThreshold ==
  {<<<<0, 1>>, <<3, 4>>, <<1, 2>>>>,
   <<<<1, 20>>, <<9, 10>>, <<1, 4>>>>,
   <<<<1, 18>>, <<7, 12>>, <<2, 3>>>>,
   <<<<1, 12>>, <<7, 8>>, <<1, 4>>>>,
   <<<<1, 10>>, <<4, 5>>, <<1, 3>>>>,
   <<<<2, 9>>, <<7, 12>>, <<1, 2>>>>,
   <<<<1, 4>>, <<3, 4>>, <<1, 4>>>>,
   <<<<3, 10>>, <<9, 10>>, <<0, 1>>>>,
   <<<<7, 18>>, <<5, 6>>, <<0, 1>>>>,
   <<<<4, 9>>, <<5, 12>>, <<1, 2>>>>,
   <<<<7, 15>>, <<2, 5>>, <<1, 2>>>>,
   <<<<1, 2>>, <<3, 8>>, <<1, 2>>>>,
   <<<<1, 2>>, <<3, 4>>, <<0, 1>>>>,
   <<<<13, 15>>, <<1, 10>>, <<1, 2>>>>}

\* line 1074 on the doubles of lines 1068-1071: away from an exact sum of
\* 0.45 the rounding error (under 1e-15) cannot change the comparison, the
\* sums being fractions of small denominators
ExceedsThreshold(j, s, t) ==
  LET weighted == JaccardWeight * j[1] * s[2] * t[2] + SemanticWeight * s[1] * j[2] * t[2]
                    + ThemeWeight * t[1] * j[2] * s[2]
      threshold == AbsorbThreshold * j[2] * s[2] * t[2]
  IN  \/ weighted > threshold
      \/ /\ weighted = threshold
         /\ <<LowestTerms(j), LowestTerms(s), LowestTerms(t)>> \in RoundedAboveThreshold

(***************************************************************************)
(* TextAggregator.extractLeaderName: a leader cell is "" when the column   *)
(* is absent (undefined); the result "" stands for null.                   *)
(***************************************************************************)
NonEmptyParts(parts) == LET NonEmpty(p) == Len(p) > 0 IN SelectSeq(parts, NonEmpty)

extractLeaderName(rawLeaderName) ==
  IF rawLeaderName = "" \/ rawLeaderName = "null" \/ rawLeaderName = "undefined" THEN ""
  ELSE LET name == Trim(SplitChar(rawLeaderName, "(")[1])
           parts == NonEmptyParts(SplitChar(name, " "))
       IN  IF Len(parts) >= 2 THEN parts[1] \o " " \o parts[2]
           ELSE IF Len(parts) = 1 THEN parts[1] ELSE ""


(***************************************************************************)
(* questionMappings of TextAggregator.aggregateResponses.  A pattern       *)
(* /a.*b/i is the sequence <<"a", "b">> of its literal parts.              *)
(***************************************************************************)
questionMappings ==
  << [category |-> "fulfilling_work", columnRef |-> "H",
      patterns |-> << <<"make", "work", "fulfilling">>, <<"work", "experience", "fulfilling">>,
                      <<"fulfilling", "work">>, <<"enjoy", "work">>, <<"satisfying", "work">> >>],
     [category |-> "role_clarity", columnRef |-> "J",
      patterns |-> << <<"clarify", "role", "goals">>, <<"information", "support", "clarify">>,
                      <<"understand", "role">>, <<"goals", "clear">>, <<"expectations">> >>],
     [category |-> "obstacles", columnRef |-> "M",
      patterns |-> << <<"obstacles", "preventing">>, <<"preventing", "highest">>,
                      <<"barriers">>, <<"challenges">>, <<"problems">> >>],
     [category |-> "empowerment_changes", columnRef |-> "O",
      patterns |-> << <<"empowered", "role">>, <<"changes", "empowered">>,
                      <<"feel", "empowered">>, <<"autonomy">>, <<"decision", "making">> >>],
     [category |-> "bold_ideas", columnRef |-> "Q",
      patterns |-> << <<"bold", "ideas">>, <<"ideas", "propel">>,
                      <<"propel", "forward">>, <<"innovation">>, <<"suggestions">> >>],
     [category |-> "leadership_support", columnRef |-> "T",
      patterns |-> << <<"support", "leadership">>, <<"leadership", "provide">>,
                      <<"leadership", "support">>, <<"management", "support">>,
                      <<"help", "succeed">> >>] >>

Categories == {questionMappings[k].category : k \in 1..Len(questionMappings)}

RECURSIVE MatchParts(_, _, _, _)
MatchParts(parts, k, lkey, from) ==
  IF k > Len(parts) THEN TRUE
  ELSE LET p == IndexOfFrom(lkey, parts[k], from)
       IN  p > 0 /\ MatchParts(parts, k + 1, lkey, p + Len(parts[k]))

\* pattern.test(key) for a case-insensitive pattern; lkey is key in lower case
PatternTest(parts, lkey) == MatchParts(parts, 1, lkey, 1)

\* TextAggregator.extractTextFromResponse: the non-empty string cells whose
\* header matches one of the mapping's patterns, in the record's key order
extractTextFromResponse(response, mapping) ==
  LET Matching(cell) ==
        /\ LET lkey == ToLowerCase(cell.key)
           IN  \E k \in 1..Len(mapping.patterns) : PatternTest(mapping.patterns[k], lkey)
        /\ cell.value.t = "string" /\ cell.value.s # ""
      cells == SelectSeq(response.cells, Matching)
  IN  [i \in 1..Len(cells) |-> cells[i].value]

(***************************************************************************)
(* The aggregate under construction (lines 819-829 and 908-920).           *)
(***************************************************************************)
EmptyCategory(mapping) ==
  [clusters |-> <<>>, totalResponses |-> 0, rawResponses |-> <<>>,
   columnRef |-> mapping.columnRef,
   processingStats |-> [originalCount |-> 0, validCount |-> 0, clusteredCount |-> 0]]

\* the initialisation of lines 908-920 stopping one mapping short
InitialByCategoryShort ==
  [c \in {questionMappings[k].category : k \in 1..(Len(questionMappings) - 1)} |->
     EmptyCategory(questionMappings[CHOOSE k \in 1..Len(questionMappings) :
                                      questionMappings[k].category = c])]

InitialByCategory ==
  [c \in Categories |->
     EmptyCategory(questionMappings[CHOOSE k \in 1..Len(questionMappings) :
                                      questionMappings[k].category = c])]

\* lines 935-941 and 972-977: the per-leader tally
TallyLeader(leaders, leaderName, department, theme) ==
  LET cur == IF leaderName \in DOMAIN leaders THEN leaders[leaderName]
             ELSE [responseCount |-> 0, themes |-> <<>>, department |-> department]
      old == {i \in 1..Len(cur.themes) : cur.themes[i][1] = theme}
      themes == IF old = {} THEN Append(cur.themes, <<theme, 1>>)
                ELSE [i \in 1..Len(cur.themes) |->
                        IF i \in old THEN <<theme, cur.themes[i][2] + 1>> ELSE cur.themes[i]]
      new == [cur EXCEPT !.responseCount = @ + 1, !.themes = themes]
  IN  [n \in DOMAIN leaders \cup {leaderName} |-> IF n = leaderName THEN new ELSE leaders[n]]

\* CollectText with one rawResponses array shared by the categories: line 958
\* pushes to it whatever the category
CollectTextSharedArray(acc, category, textResponse, leaderName, department) ==
  LET counted == [acc.cats EXCEPT ![category].processingStats.originalCount = @ + 1]
  IN  IF isValidTextResponse(textResponse)
      THEN LET cleanText == enhancedCleanTextResponse(textResponse.s)
               raw == [text |-> cleanText,
                       normalizedText |-> normalizeForClustering(cleanText),
                       leader |-> leaderName,
                       department |-> department,
                       fullOriginal |-> textResponse.s,
                       semanticTokens |-> extractSemanticTokens(cleanText)]
           IN  [cats |-> [c \in DOMAIN counted |->
                            IF c = category
                            THEN [counted[c] EXCEPT !.processingStats.validCount = @ + 1,
                                                    !.rawResponses = Append(@, raw),
                                                    !.totalResponses = @ + 1]
                            ELSE [counted[c] EXCEPT !.rawResponses = Append(@, raw)]],
                leaders |-> IF leaderName # ""
                            THEN TallyLeader(acc.leaders, leaderName, department,
                                             enhancedExtractTheme(cleanText))
                            ELSE acc.leaders,
                threw |-> acc.threw]
      ELSE [cats |-> counted, leaders |-> acc.leaders, threw |-> acc.threw]

\* CollectText with line 969 moved before the test of line 952
CollectTextCountingAll(acc, category, textResponse, leaderName, department) ==
  LET counted == [acc.cats EXCEPT ![category].processingStats.originalCount = @ + 1,
                                  ![category].totalResponses = @ + 1]
  IN  IF isValidTextResponse(textResponse)
      THEN LET cleanText == enhancedCleanTextResponse(textResponse.s)
               raw == [text |-> cleanText,
                       normalizedText |-> normalizeForClustering(cleanText),
                       leader |-> leaderName,
                       department |-> department,
                       fullOriginal |-> textResponse.s,
                       semanticTokens |-> extractSemanticTokens(cleanText)]
           IN  [cats |-> [counted EXCEPT ![category].processingStats.validCount = @ + 1,
                                         ![category].rawResponses = Append(@, raw)],
                leaders |-> IF leaderName # ""
                            THEN TallyLeader(acc.leaders, leaderName, department,
                                             enhancedExtractTheme(cleanText))
                            ELSE acc.leaders,
                threw |-> acc.threw]
      ELSE [cats |-> counted, leaders |-> acc.leaders, threw |-> acc.threw]

\* lines 950-979 for one extracted cell; acc = [cats, leaders, threw], the
\* aggregate under construction and whether an exception has ended the call
CollectText(acc, category, textResponse, leaderName, department) ==
  LET counted == [acc.cats EXCEPT ![category].processingStats.originalCount = @ + 1]
  IN  IF isValidTextResponse(textResponse)
      THEN LET cleanText == enhancedCleanTextResponse(textResponse.s)
               raw == [text |-> cleanText,
                       normalizedText |-> normalizeForClustering(cleanText),
                       leader |-> leaderName,
                       department |-> department,
                       fullOriginal |-> textResponse.s,
                       semanticTokens |-> extractSemanticTokens(cleanText)]
           IN  [cats |-> [counted EXCEPT ![category].processingStats.validCount = @ + 1,
                                         ![category].rawResponses = Append(@, raw),
                                         ![category].totalResponses = @ + 1],
                leaders |-> IF leaderName # ""
                            THEN TallyLeader(acc.leaders, leaderName, department,
                                             enhancedExtractTheme(cleanText))
                            ELSE acc.leaders,
                threw |-> acc.threw]
      ELSE [cats |-> counted, leaders |-> acc.leaders, threw |-> acc.threw]

RECURSIVE CollectTexts(_, _, _, _, _, _)
CollectTexts(acc, category, texts, i, leaderName, department) ==
  IF i > Len(texts) \/ acc.threw THEN acc
  ELSE CollectTexts(CollectText(acc, category, texts[i], leaderName, department),
                    category, texts, i + 1, leaderName, department)

RECURSIVE CollectMappings(_, _, _, _, _)
CollectMappings(acc, response, k, leaderName, department) ==
  IF k > Len(questionMappings) \/ acc.threw THEN acc
  ELSE CollectMappings(
         CollectTexts(acc, questionMappings[k].category,
                      extractTextFromResponse(response, questionMappings[k]), 1,
                      leaderName, department),
         response, k + 1, leaderName, department)

\* the body of cleanedData.forEach (lines 927-981) for a record that is an object
CollectResponse(acc, response) ==
  LET leaderName == extractLeaderName(response._steamLeader)
      department == IF response._department # "" THEN response._department ELSE "Unknown"
      known == IF leaderName # "" /\ leaderName \notin DOMAIN acc.leaders
               THEN [n \in DOMAIN acc.leaders \cup {leaderName} |->
                       IF n = leaderName
                       THEN [responseCount |-> 0, themes |-> <<>>, department |-> department]
                       ELSE acc.leaders[n]]
               ELSE acc.leaders
  IN  CollectMappings([acc EXCEPT !.leaders = known], response, 1, leaderName, department)


(***************************************************************************)
(* TextAggregator.enhancedClusterResponsesWithFullExamples                 *)
(***************************************************************************)
MaxExamples == 8
MaxClusters == 40

\* responses.sort((a, b) => b.text.length - a.text.length), a stable sort:
\* a response comes after the longer ones and after the earlier ones of its
\* own length
\* SortByLength without the sort of line 1040
SortByLengthAsCollected(responses) == responses

SortByLength(responses) ==
  LET n == Len(responses)
      Before(j, i) ==
        \/ Len(responses[j].text) > Len(responses[i].text)
        \/ Len(responses[j].text) = Len(responses[i].text) /\ j < i
      ahead == Materialized([i \in 1..n |-> Cardinality({j \in 1..n : Before(j, i)})])
  IN  Materialized([k \in 1..n |-> responses[CHOOSE i \in 1..n : ahead[i] = k - 1]])

RECURSIVE Halve(_)
Halve(f) == IF f[1] % 2 = 0 /\ f[2] % 2 = 0 THEN Halve(<<f[1] \div 2, f[2] \div 2>>) ELSE f
\* (avg + n) / 2 for the fraction avg
AverageWith(avg, n) == Halve(<<avg[1] + n * avg[2], 2 * avg[2]>>)

\* lines 1045-1053: the cluster a seed starts
SeedCluster(response) ==
  [theme |-> enhancedExtractTheme(response.text),
   count |-> 1,
   examples |-> <<response.fullOriginal>>,
   leaders |-> {response.leader},
   departments |-> {response.department},
   semanticSignature |-> response.semanticTokens,
   avgLength |-> <<Len(response.text), 1>>]

\* What lines 1062-1064 derive from a response's texts on every comparison:
\* the token set of normalizedText and the theme label of text.  Both are
\* functions of the response alone, so the pass derives them once per response.
Derived(response) ==
  [tokens |-> Range(SplitWs(response.normalizedText)),
   theme |-> enhancedExtractTheme(response.text)]

DerivedOf(sorted) == Materialized([i \in 1..Len(sorted) |-> Derived(sorted[i])])

\* lines 1061-1074: the combined similarity of a candidate with the seed
\* exceeds 0.45; d and otherD are Derived of the two responses
\* Similar without the theme term of line 1071
SimilarWithoutTheme(response, otherResponse, d, otherD) ==
  ExceedsThreshold(
    JaccardOfTokens(d.tokens, otherD.tokens),
    calculateSemanticSimilarity(response.semanticTokens, otherResponse.semanticTokens),
    <<0, 1>>)

Similar(response, otherResponse, d, otherD) ==
  ExceedsThreshold(
    JaccardOfTokens(d.tokens, otherD.tokens),
    calculateSemanticSimilarity(response.semanticTokens, otherResponse.semanticTokens),
    SimilarityOfThemes(d.theme, otherD.theme))

\* Absorb with count++ moved inside the test of line 1079
AbsorbCountingExamples(cluster, otherResponse) ==
  [cluster EXCEPT
     !.count = IF Len(cluster.examples) < MaxExamples THEN @ + 1 ELSE @,
     !.examples = IF Len(@) < MaxExamples THEN Append(@, otherResponse.fullOriginal) ELSE @,
     !.leaders = IF otherResponse.leader # "" THEN @ \cup {otherResponse.leader} ELSE @,
     !.departments = IF otherResponse.department # "" THEN @ \cup {otherResponse.department}
                     ELSE @,
     !.avgLength = AverageWith(@, Len(otherResponse.text)),
     !.semanticSignature = Dedup(@ \o otherResponse.semanticTokens)]

\* Absorb with line 1080 pushing otherResponse.text
AbsorbCleanedText(cluster, otherResponse) ==
  [cluster EXCEPT
     !.count = @ + 1,
     !.examples = IF Len(@) < MaxExamples THEN Append(@, otherResponse.text) ELSE @,
     !.leaders = IF otherResponse.leader # "" THEN @ \cup {otherResponse.leader} ELSE @,
     !.departments = IF otherResponse.department # "" THEN @ \cup {otherResponse.department}
                     ELSE @,
     !.avgLength = AverageWith(@, Len(otherResponse.text)),
     !.semanticSignature = Dedup(@ \o otherResponse.semanticTokens)]

\* lines 1075-1092: the cluster after it absorbs otherResponse
Absorb(cluster, otherResponse) ==
  [cluster EXCEPT
     !.count = @ + 1,
     !.examples = IF Len(@) < MaxExamples THEN Append(@, otherResponse.fullOriginal) ELSE @,
     !.leaders = IF otherResponse.leader # "" THEN @ \cup {otherResponse.leader} ELSE @,
     !.departments = IF otherResponse.department # "" THEN @ \cup {otherResponse.department}
                     ELSE @,
     !.avgLength = AverageWith(@, Len(otherResponse.text)),
     !.semanticSignature = Dedup(@ \o otherResponse.semanticTokens)]

RECURSIVE AbsorbRange(_, _, _, _, _, _)
\* the iterations a..b of the inner forEach (lines 1058-1094) for the seed at
\* idx, the range halved until it is one candidate; st = [cluster, processed,
\* members].  Once every response is processed no iteration changes anything.
AbsorbRange(sorted, derived, idx, a, b, st) ==
  IF a > b \/ Cardinality(st.processed) = Len(sorted) THEN st
  ELSE IF a = b
       THEN IF a <= idx \/ a \in st.processed THEN st
            ELSE IF Similar(sorted[idx], sorted[a], derived[idx], derived[a])
                 THEN [cluster |-> Absorb(st.cluster, sorted[a]),
                       processed |-> st.processed \cup {a},
                       members |-> st.members \cup {a}]
                 ELSE st
       ELSE AbsorbRange(sorted, derived, idx, ((a + b) \div 2) + 1, b,
                        AbsorbRange(sorted, derived, idx, a, (a + b) \div 2, st))

\* lines 1096-1100: the Sets become counts
Serialize(cluster) ==
  [theme |-> cluster.theme, count |-> cluster.count, examples |-> cluster.examples,
   semanticSignature |-> cluster.semanticSignature, avgLength |-> cluster.avgLength,
   leaderCount |-> Cardinality(cluster.leaders),
   departmentCount |-> Cardinality(cluster.departments)]

RECURSIVE SeedRange(_, _, _, _, _)
\* the iterations a..b of the outer forEach (lines 1042-1103), the range
\* halved until it is one response; st = [clusters, processed, assigned],
\* assigned[k] the positions of sortedResponses that line 1055 or line 1076
\* marked processed while cluster k was being built
SeedRange(sorted, derived, a, b, st) ==
  IF a > b \/ Cardinality(st.processed) = Len(sorted) THEN st
  ELSE IF a = b
       THEN IF a \in st.processed THEN st
            ELSE LET done == AbsorbRange(sorted, derived, a, 1, Len(sorted),
                                         [cluster |-> SeedCluster(sorted[a]),
                                          processed |-> st.processed \cup {a},
                                          members |-> {a}])
                 IN  [clusters |-> Append(st.clusters, Serialize(done.cluster)),
                      processed |-> done.processed,
                      assigned |-> Append(st.assigned, done.members)]
       ELSE SeedRange(sorted, derived, ((a + b) \div 2) + 1, b,
                      SeedRange(sorted, derived, a, (a + b) \div 2, st))

SinglePass(sorted) ==
  SeedRange(sorted, DerivedOf(sorted), 1, Len(sorted),
            [clusters |-> <<>>, processed |-> {}, assigned |-> <<>>])

(***************************************************************************)
(* TextAggregator.postProcessClustersWithExamples                          *)
(***************************************************************************)
\* the threshold 0.6 of line 1147 as the fraction 6/10
MergeThresholdNum == 6
MergeThresholdDen == 10

\* ThemesMerge with >= on line 1147
ThemesMergeAtThreshold(theme1, theme2) ==
  LET themeWords1 == Range(SplitChar(theme1, "_"))
      themeWords2 == Range(SplitChar(theme2, "_"))
      themeOverlap == Cardinality(themeWords1 \cap themeWords2)
      themeUnion == Cardinality(themeWords1 \cup themeWords2)
  IN  themeOverlap * MergeThresholdDen >= MergeThresholdNum * themeUnion

\* ThemesMerge with 1.0 for 0.6 on line 1147
ThemesMergeAboveOne(theme1, theme2) ==
  LET themeWords1 == Range(SplitChar(theme1, "_"))
      themeWords2 == Range(SplitChar(theme2, "_"))
      themeOverlap == Cardinality(themeWords1 \cap themeWords2)
      themeUnion == Cardinality(themeWords1 \cup themeWords2)
  IN  themeOverlap > themeUnion

\* lines 1140-1147: themeJaccard > 0.6
ThemesMerge(theme1, theme2) ==
  LET themeWords1 == Range(SplitChar(theme1, "_"))
      themeWords2 == Range(SplitChar(theme2, "_"))
      themeOverlap == Cardinality(themeWords1 \cap themeWords2)
      themeUnion == Cardinality(themeWords1 \cup themeWords2)
  IN  themeOverlap * MergeThresholdDen > MergeThresholdNum * themeUnion

\* MergeInto without line 1148
MergeIntoKeepingCount(currentCluster, cluster, otherCluster) ==
  [currentCluster EXCEPT
     !.examples = LET uniqueExamples == Dedup(@ \o otherCluster.examples)
                  IN  SubSeq(uniqueExamples, 1,
                             IF Len(uniqueExamples) < MaxExamples
                             THEN Len(uniqueExamples) ELSE MaxExamples),
     !.leaderCount = @ + otherCluster.leaderCount,
     !.departmentCount = @ + otherCluster.departmentCount,
     !.theme = IF otherCluster.count > cluster.count THEN otherCluster.theme ELSE @]

\* lines 1148-1166: currentCluster after otherCluster is merged into it;
\* cluster is the unmerged cluster the outer loop started from
MergeInto(currentCluster, cluster, otherCluster) ==
  [currentCluster EXCEPT
     !.count = @ + otherCluster.count,
     !.examples = LET uniqueExamples == Dedup(@ \o otherCluster.examples)
                  IN  SubSeq(uniqueExamples, 1,
                             IF Len(uniqueExamples) < MaxExamples
                             THEN Len(uniqueExamples) ELSE MaxExamples),
     !.leaderCount = @ + otherCluster.leaderCount,
     !.departmentCount = @ + otherCluster.departmentCount,
     !.theme = IF otherCluster.count > cluster.count THEN otherCluster.theme ELSE @]

RECURSIVE MergeRange(_, _, _, _, _)
\* the iterations a..b of the inner forEach (lines 1136-1170) for the cluster
\* at idx; st = [current, processed]
MergeRange(clusters, idx, a, b, st) ==
  IF a > b \/ Cardinality(st.processed) = Len(clusters) THEN st
  ELSE IF a = b
       THEN IF a <= idx \/ a \in st.processed THEN st
            ELSE IF ThemesMerge(clusters[idx].theme, clusters[a].theme)
                 THEN [current |-> MergeInto(st.current, clusters[idx], clusters[a]),
                       processed |-> st.processed \cup {a}]
                 ELSE st
       ELSE MergeRange(clusters, idx, ((a + b) \div 2) + 1, b,
                       MergeRange(clusters, idx, a, (a + b) \div 2, st))

RECURSIVE MergeOuterRange(_, _, _, _)
\* the iterations a..b of the outer forEach (lines 1126-1173);
\* st = [merged, processed]
MergeOuterRange(clusters, a, b, st) ==
  IF a > b \/ Cardinality(st.processed) = Len(clusters) THEN st
  ELSE IF a = b
       THEN IF a \in st.processed THEN st
            ELSE LET done == MergeRange(clusters, a, 1, Len(clusters),
                                        [current |-> clusters[a],
                                         processed |-> st.processed \cup {a}])
                 IN  [merged |-> Append(st.merged, done.current),
                      processed |-> done.processed]
       ELSE MergeOuterRange(clusters, ((a + b) \div 2) + 1, b,
                            MergeOuterRange(clusters, a, (a + b) \div 2, st))

postProcessClustersWithExamples(clusters) ==
  IF Len(clusters) < 2 THEN clusters
  ELSE MergeOuterRange(clusters, 1, Len(clusters), [merged |-> <<>>, processed |-> {}]).merged

(***************************************************************************)
(* Lines 1108-1112: sort by frequency, keep the top 40.                    *)
(***************************************************************************)
\* the sort of line 1109 with the comparator a.count - b.count
SortByCountAscending(clusters) ==
  LET n == Len(clusters)
      Before(j, i) ==
        \/ clusters[j].count < clusters[i].count
        \/ clusters[j].count = clusters[i].count /\ j < i
      ahead == Materialized([i \in 1..n |-> Cardinality({j \in 1..n : Before(j, i)})])
  IN  Materialized([k \in 1..n |-> clusters[CHOOSE i \in 1..n : ahead[i] = k - 1]])

\* mergedClusters.sort((a, b) => b.count - a.count), a stable sort: a cluster
\* comes after the larger ones and after the earlier ones of its own count
SortByCount(clusters) ==
  LET n == Len(clusters)
      Before(j, i) ==
        \/ clusters[j].count > clusters[i].count
        \/ clusters[j].count = clusters[i].count /\ j < i
      ahead == Materialized([i \in 1..n |-> Cardinality({j \in 1..n : Before(j, i)})])
  IN  Materialized([k \in 1..n |-> clusters[CHOOSE i \in 1..n : ahead[i] = k - 1]])

\* line 1112 returning mergedClusters itself
TopClustersUncut(clusters) == clusters

\* mergedClusters.slice(0, 40)
TopClusters(clusters) ==
  SubSeq(clusters, 1, IF Len(clusters) < MaxClusters THEN Len(clusters) ELSE MaxClusters)


(***************************************************************************)
(* PromptBuilder.buildCategoryPrompt and its caller                        *)
(* AIProcessor.processAggregatedInsights.                                  *)
(***************************************************************************)
MinFrequency == 20
MinExamples == 3
PromptExamples == 5

\* the order in which processAggregatedInsights visits the categories
questionCategories ==
  <<"fulfilling_work", "empowerment_changes", "leadership_support",
    "obstacles", "bold_ideas", "role_clarity">>

RECURSIVE PadExamples(_)
\* lines 27-31: examples.push(examples[0]) until there are three
PadExamples(examples) ==
  IF Len(examples) < MinExamples /\ Len(examples) > 0
  THEN PadExamples(Append(examples, examples[1]))
  ELSE examples

\* the cluster after lines 24-31 ran on it: examples is the cluster's own array
PaddedCluster(cluster) ==
  IF cluster.count >= MinFrequency
  THEN [cluster EXCEPT !.examples = PadExamples(@)]
  ELSE cluster

\* Math.round(n / d * 100) for 0 <= n, 0 < d
RoundPercent(n, d) == (200 * n + d) \div (2 * d)

\* lines 33-39: what the prompt shows of a cluster
EnrichedCluster(cluster, totalResponses) ==
  LET examples == PadExamples(cluster.examples)
  IN  [theme |-> cluster.theme,
       count |-> cluster.count,
       percentage |-> RoundPercent(cluster.count, totalResponses),
       full_examples |-> SubSeq(examples, 1,
                                IF Len(examples) < PromptExamples
                                THEN Len(examples) ELSE PromptExamples),
       leaderCount |-> IF cluster.leaderCount # 0 THEN cluster.leaderCount ELSE 1]

\* buildCategoryPrompt with c.count > 20 on line 13
buildCategoryPromptAboveThreshold(categoryData) ==
  LET IsHigh(c) == c.count > MinFrequency
      highFrequencyClusters == SelectSeq(categoryData.clusters, IsHigh)
  IN  IF Len(highFrequencyClusters) = 0
      THEN [null |-> TRUE, enrichedClusters |-> <<>>, after |-> categoryData.clusters]
      ELSE [null |-> FALSE,
            enrichedClusters |->
              [i \in 1..Len(highFrequencyClusters) |->
                 EnrichedCluster(highFrequencyClusters[i], categoryData.totalResponses)],
            after |-> [i \in 1..Len(categoryData.clusters) |->
                         PaddedCluster(categoryData.clusters[i])]]

\* buildCategoryPrompt: [null, clusters] is the value returned (null, or the
\* prompt, of which enrichedClusters is the part that depends on the clusters)
\* and after is categoryData.clusters when the call returns
buildCategoryPrompt(categoryData) ==
  LET IsHigh(c) == c.count >= MinFrequency
      highFrequencyClusters == SelectSeq(categoryData.clusters, IsHigh)
  IN  IF Len(highFrequencyClusters) = 0
      THEN [null |-> TRUE, enrichedClusters |-> <<>>, after |-> categoryData.clusters]
      ELSE [null |-> FALSE,
            enrichedClusters |->
              [i \in 1..Len(highFrequencyClusters) |->
                 EnrichedCluster(highFrequencyClusters[i], categoryData.totalResponses)],
            after |-> [i \in 1..Len(categoryData.clusters) |->
                         PaddedCluster(categoryData.clusters[i])]]

(***************************************************************************)
(* The survey records the runs are made of.                                *)
(***************************************************************************)
Cell(key, value) == [key |-> key, value |-> value]
Row(cells, leader, department) ==
  [isNull |-> FALSE, cells |-> cells, _steamLeader |-> leader, _department |-> department]
\* an element of cleanedData that is null
NullRow == [isNull |-> TRUE, cells |-> <<>>, _steamLeader |-> "", _department |-> ""]

HObstacles == "Obstacles preventing you"
HIdeas == "Bold ideas"
HRoleSupport == "Leadership support to understand role"
HTenure == "Tenure"
HEmpowerment == "Changes to feel empowered"

RowPool ==
  << Row(<<Cell(HObstacles, Str("workload is overwhelming every sprint"))>>,
         "Jane Doe (VP)", "Eng"),
     Row(<<Cell(HObstacles, Str("no time for deep focus"))>>, "", ""),
     Row(<<Cell(HObstacles, Str(" um  the workload is overwhelming")),
           Cell(HIdeas, Str("N/A"))>>, "Jane Doe", "Eng"),
     Row(<<Cell(HObstacles, Str("parking garage is always full")),
           Cell(HTenure, Num("3"))>>, "Raj Patel", "Ops"),
     Row(<<Cell(HObstacles, Str("It's okay")), Cell(HIdeas, Str("Too slow")),
           Cell(HRoleSupport, Str("clear goals from my manager"))>>, "", "Ops"),
     Row(<<Cell(HObstacles, Null), Cell(HIdeas, Str("automate the weekly reports")),
           Cell(HRoleSupport, Str("  none  "))>>, "null", "Eng"),
     NullRow >>

\* the bounds of the runs
MaxRows == 2
BulkCopies == 19
BulkRows == 41

RECURSIVE SeqsUpTo(_, _)
SeqsUpTo(S, n) ==
  IF n = 0 THEN {<<>>}
  ELSE LET shorter == SeqsUpTo(S, n - 1)
       IN  shorter \cup {Append(q, x) : q \in shorter, x \in S}

Copies(row, n) == [i \in 1..n |-> row]

\* bulk answers to the obstacles question: "scattered" ones share no word,
\* "themed" ones share the theme keyword time and no other word
BulkCode(i) == Ch(LowerLetters, (i \div 10) + 1) \o Ch(LowerLetters, (i % 10) + 1)
BulkText(kind, i) ==
  IF kind = "scattered" THEN "parkinglot" \o BulkCode(i)
  ELSE "time gate" \o BulkCode(i) \o " slot" \o BulkCode(i) \o " door" \o BulkCode(i)
Bulk(kind, n) ==
  [i \in 1..n |-> Row(<<Cell(HObstacles, Str(BulkText(kind, i)))>>, "", "")]

\* every sequence of up to MaxRows records of the pool
FreeInputs == SeqsUpTo(Range(RowPool), MaxRows)
\* one record answered BulkCopies times, alone or followed by another record
AmplifiedInputs ==
  {Copies(a, BulkCopies) \o tail :
     a \in Range(RowPool), tail \in {<<>>} \cup {<<b>> : b \in Range(RowPool)}}
\* BulkRows bulk answers after nothing, one record, or one record BulkCopies times
BulkInputs ==
  {head \o Bulk(kind, BulkRows) :
     head \in {<<>>} \cup {Copies(a, n) : a \in Range(RowPool), n \in {1, BulkCopies}},
     kind \in {"scattered", "themed"}}

\* one answer to the obstacles question: the strings the validity filter
\* tells apart, with and without surrounding white space
ProbeCores ==
  {"", "n/a", "N/A", "na", "NA", "none", "None", "no", "NO", "nothing", "Nothing",
   "nil", "NIL", "-", "---", "----------", ".", "...", "...........",
   "not applicable", "Not Applicable", "no comment", "NO COMMENT", "nope", "Nope",
   "nada", "NADA", "no.", "n/a.", "none.", "no comment.", "not applicable!",
   "nothing at all", "It's okay", "Too slow", "abcdefg", "abcdefgh", "abcdefghi",
   "abcdefghij", "- - - - -", "-.-.-.-.-", "nonenone!", "n / a", "um um um um",
   "so um the workload is heavy", "too  slow every day", "meetings, er, overrun",
   "workload hurts our culture", "culture suffers with remote hybrid setups",
   "remote hybrid culture and team morale", "would really like nicer chairs",
   "it is all ok by me now", "parking is ok for us", "I need better tools."}
ProbePads == {<<"", "">>, <<" ", "">>, <<"", " ">>, <<"  ", "  ">>, <<"\t", "\n">>}
ProbeInputs ==
  {<<Row(<<Cell(HObstacles, Str(pad[1] \o core \o pad[2]))>>, "", "")>> :
     core \in ProbeCores, pad \in ProbePads}

\* answers to the obstacles question of which ScenarioOnTopic hold the word
\* workload or bandwidth and the others are about parking; the "aligned" ones
\* hold no other keyword, half of the "mixed" ones hold the keyword
\* communication as well
ScenarioSize == 25
ScenarioOnTopic == 22
Answers(text, n) == Copies(Row(<<Cell(HObstacles, Str(text))>>, "", ""), n)
ScenarioInputs ==
  {Answers(first, ScenarioOnTopic \div 2)
     \o Answers("workload is overwhelming every sprint",
                ScenarioOnTopic - (ScenarioOnTopic \div 2))
     \o Answers("parking garage is always full", ScenarioSize - ScenarioOnTopic) :
   first \in {"no bandwidth left for deep focus", "unclear communication about workload"}}

\* one or two answers to the empowerment question
EmpowermentAnswers ==
  {"I feel empowered", "I feel empowered.", "We are EMPOWERED now",
   "empowered, at last", "more autonomy and feeling empowered",
   "empowered by clear leadership", "nobody here is empowered to decide",
   "disempowered by every review"}
EmpowermentInputs ==
  {<<Row(<<Cell(HEmpowerment, Str(a))>>, "", "")>> : a \in EmpowermentAnswers}
    \cup {<<Row(<<Cell(HEmpowerment, Str(a))>>, "", ""),
            Row(<<Cell(HEmpowerment, Str(b))>>, "", "")>> :
            a \in EmpowermentAnswers, b \in EmpowermentAnswers}

\* two answers whose similarity is jaccard 1/2, semantic 3/4, theme 0
TieAnswers ==
  {<<"delta gamma parking garage always is so goals",
     "alpha bravo parking garage always is so">>}
TieInputs ==
  {<<Row(<<Cell(HObstacles, Str(a[1]))>>, "", ""),
     Row(<<Cell(HObstacles, Str(a[2]))>>, "", "")>> : a \in TieAnswers}

\* answers whose theme labels overlap in part: north_wing_aircon_unit and
\* north_wing_aircon_vent share 3 words of 5; hr_it_desks and
\* hr_it_desks_wifi share 3 of 4; the last input has its answers in
\* ascending length
OverlapInputs ==
  {<<Row(<<Cell(HObstacles, Str("north_wing aircon_unit too loud"))>>, "Dana", "Ops"),
     Row(<<Cell(HObstacles, Str("north_wing aircon_vent is dusty"))>>, "Evan", "Ops")>>,
   Answers("hr_it desks are all too cramped today", 2)
     \o Answers("hr_it desks get noisy after lunch", 2)
     \o Answers("hr_it desks_wifi too weak", 3),
   Answers("hr_it desks are all too cramped today", 3)
     \o Answers("hr_it desks_wifi too weak", 2)
     \o <<Row(<<Cell(HObstacles, Str("hr_it desks get noisy after lunch"))>>, "Dana", "Ops")>>,
   Answers("hr_it desks_wifi too weak", 1)
     \o Answers("parking garage is always full", 1)
     \o Answers("the parking garage is always full", 1),
   Answers("hr_it desks are all too cramped today", 1)
     \o Answers("hr_it desks get noisy after lunch", 1)
     \o Answers("hr_it desks_wifi too weak", 2)
     \o Answers("parking garage is always full", 1),
   Answers("hr_it desks get noisy after lunch", 1)
     \o Answers("parking garage is always full", 1)
     \o Answers("n/a", 1)
     \o Answers("hr_it desks get noisy after lunch", 1)}

\* answers of n characters, words of seven letters, with a full stop as
\* character p (none for p = 0): 500 characters, and more than 500 with the
\* full stop before, at, and after the places lines 1206-1216 test
LongInputs ==
  LET LongAnswer(n, p) ==
        Concat([i \in 1..n |-> IF i = p THEN "." ELSE IF i % 8 = 0 THEN " " ELSE "x"])
  IN  {<<Row(<<Cell(HObstacles, Str(LongAnswer(np[1], np[2])))>>, "", "")>> :
         np \in {<<500, 450>>, <<501, 0>>, <<521, 0>>, <<521, 300>>, <<521, 401>>,
                 <<521, 402>>, <<521, 450>>, <<521, 500>>, <<521, 510>>}}

Inputs ==
  FreeInputs \cup AmplifiedInputs \cup BulkInputs \cup ProbeInputs \cup ScenarioInputs
    \cup EmpowermentInputs \cup TieInputs \cup OverlapInputs \cup LongInputs

(***************************************************************************)
(* The run: aggregateResponses on cleanedData, then the prompt stage on    *)
(* the aggregate it returned.                                              *)
(***************************************************************************)
VARIABLES
  cleanedData,     \* the argument of aggregateResponses
  pc,              \* where the run stands
  byCategory,      \* aggregated.byCategory
  byLeader,        \* aggregated.byLeader
  catIdx,          \* the category the clustering forEach (line 988) is at
  clusters,        \* the clusters of the single pass for that category
  assigned,        \* for each of them, the positions of sortedResponses it took
  mergedClusters,  \* the result of postProcessClustersWithExamples
  promptIdx,       \* the category processAggregatedInsights is at
  prompts,         \* what buildCategoryPrompt returned, per category
  again            \* what a second call of aggregateResponses returned

vars == <<cleanedData, pc, byCategory, byLeader, catIdx, clusters, assigned,
          mergedClusters, promptIdx, prompts, again>>

Init ==
  /\ cleanedData \in Inputs
  /\ pc = "collect"
  /\ byCategory = InitialByCategory
  /\ byLeader = <<>>
  /\ catIdx = 0
  /\ clusters = <<>>
  /\ assigned = <<>>
  /\ mergedClusters = <<>>
  /\ promptIdx = 0
  /\ prompts = [c \in Categories |->
                  [state |-> "unbuilt", enrichedClusters |-> <<>>, llmCalled |-> FALSE]]
  /\ again = [called |-> FALSE]

CurrentCategory == questionMappings[catIdx].category

RECURSIVE CollectRange(_, _, _, _)
\* the iterations a..b of cleanedData.forEach (lines 927-981), the range
\* halved until it is one record; acc = [cats, leaders, threw].  On a null
\* record line 928, response._steamLeader, raises a TypeError that nothing in
\* aggregateResponses catches: the forEach ends there.
CollectRange(acc, data, a, b) ==
  IF a > b \/ acc.threw THEN acc
  ELSE IF a = b
       THEN IF data[a].isNull THEN [acc EXCEPT !.threw = TRUE]
            ELSE CollectResponse(acc, data[a])
       ELSE CollectRange(CollectRange(acc, data, a, (a + b) \div 2),
                         data, ((a + b) \div 2) + 1, b)

\* RecordAfterCollect with line 955 storing the cleaned text in the record
RecordCleanedInPlace(response) ==
  [response EXCEPT !.cells =
     [i \in 1..Len(response.cells) |->
        IF response.cells[i].value.t = "string"
        THEN Cell(response.cells[i].key, Str(enhancedCleanTextResponse(response.cells[i].value.s)))
        ELSE response.cells[i]]]

\* what the body of cleanedData.forEach (lines 927-981) leaves of a record: it
\* reads response._steamLeader, response._department and, through
\* extractTextFromResponse, response[key], and assigns to none of them
RecordAfterCollect(response) == response

\* lines 908-985: either the forEach completes and line 988 starts on the
\* first category, or the TypeError leaves aggregateResponses and the
\* aggregate under construction is lost with the call
Collect ==
  /\ pc = "collect"
  /\ LET got == CollectRange([cats |-> byCategory, leaders |-> byLeader, threw |-> FALSE],
                             cleanedData, 1, Len(cleanedData))
     IN  IF got.threw
         THEN pc' = "threw" /\ UNCHANGED <<byCategory, byLeader, catIdx>>
         ELSE /\ byCategory' = got.cats /\ byLeader' = got.leaders
              /\ pc' = "cluster" /\ catIdx' = 1
  /\ cleanedData' = [i \in 1..Len(cleanedData) |-> RecordAfterCollect(cleanedData[i])]
  /\ UNCHANGED <<clusters, assigned, mergedClusters, promptIdx, prompts, again>>

\* line 990 is false: the category keeps clusters = []
SkipCategory ==
  /\ pc = "cluster" /\ catIdx <= Len(questionMappings)
  /\ Len(byCategory[CurrentCategory].rawResponses) = 0
  /\ catIdx' = catIdx + 1
  /\ UNCHANGED <<cleanedData, pc, byCategory, byLeader, clusters, assigned,
                 mergedClusters, promptIdx, prompts, again>>

\* lines 1036-1103: the sort (in place, on rawResponses) and the single pass
ClusterSinglePass ==
  /\ pc = "cluster" /\ catIdx <= Len(questionMappings)
  /\ Len(byCategory[CurrentCategory].rawResponses) > 0
  /\ LET sortedResponses == SortByLength(byCategory[CurrentCategory].rawResponses)
         pass == SinglePass(sortedResponses)
     IN  /\ byCategory' = [byCategory EXCEPT ![CurrentCategory].rawResponses = sortedResponses]
         /\ clusters' = pass.clusters
         /\ assigned' = pass.assigned
  /\ pc' = "merge"
  /\ UNCHANGED <<cleanedData, byLeader, catIdx, mergedClusters, promptIdx, prompts, again>>

\* line 1106
PostMerge ==
  /\ pc = "merge"
  /\ mergedClusters' = postProcessClustersWithExamples(clusters)
  /\ pc' = "sort"
  /\ UNCHANGED <<cleanedData, byCategory, byLeader, catIdx, clusters, assigned,
                 promptIdx, prompts, again>>

\* lines 1109-1112, then 994-995 and 1009 in the caller
SortAndTruncate ==
  /\ pc = "sort"
  /\ LET top == TopClusters(SortByCount(mergedClusters))
     IN  byCategory' = [byCategory EXCEPT
                          ![CurrentCategory].clusters = top,
                          ![CurrentCategory].processingStats.clusteredCount = Len(top),
                          ![CurrentCategory].rawResponses = <<>>]
  /\ pc' = "cluster" /\ catIdx' = catIdx + 1
  /\ UNCHANGED <<cleanedData, byLeader, clusters, assigned, mergedClusters,
                 promptIdx, prompts, again>>

\* line 1025
Return ==
  /\ pc = "cluster" /\ catIdx > Len(questionMappings)
  /\ pc' = "returned" /\ promptIdx' = 1
  /\ UNCHANGED <<cleanedData, byCategory, byLeader, catIdx, clusters, assigned,
                 mergedClusters, prompts, again>>

\* enhancedClusterResponsesWithFullExamples as one function of rawResponses,
\* called by line 994 when line 990 holds
ClustersOfCategory(rawResponses) ==
  IF Len(rawResponses) = 0 THEN <<>>
  ELSE TopClusters(SortByCount(postProcessClustersWithExamples(
         SinglePass(SortByLength(rawResponses)).clusters)))

\* aggregateResponses as one function of its argument: the aggregate is built
\* from a new object on every call (lines 819-829 and 908-920)
aggregateResponses(data) ==
  LET got == CollectRange([cats |-> InitialByCategory, leaders |-> <<>>, threw |-> FALSE],
                          data, 1, Len(data))
  IN  IF got.threw THEN [called |-> TRUE, threw |-> TRUE]
      ELSE [called |-> TRUE, threw |-> FALSE,
            byCategory |->
              [c \in Categories |->
                 LET top == ClustersOfCategory(got.cats[c].rawResponses)
                 IN  [got.cats[c] EXCEPT !.clusters = top,
                                         !.processingStats.clusteredCount = Len(top),
                                         !.rawResponses = <<>>]]]

\* the caller runs aggregateResponses a second time on the array it passed to
\* the first call
RunAgain ==
  /\ pc = "returned" /\ promptIdx = 1
  /\ again' = aggregateResponses(cleanedData)
  /\ pc' = "again"
  /\ UNCHANGED <<cleanedData, byCategory, byLeader, catIdx, clusters, assigned,
                 mergedClusters, promptIdx, prompts>>

PromptCategory == questionCategories[promptIdx]

\* aiProcessor.js line 108 is false: the category is not processed
SkipPrompt ==
  /\ pc = "returned" /\ promptIdx <= Len(questionCategories)
  /\ Len(byCategory[PromptCategory].clusters) = 0
  /\ promptIdx' = promptIdx + 1
  /\ UNCHANGED <<cleanedData, pc, byCategory, byLeader, catIdx, clusters, assigned,
                 mergedClusters, prompts, again>>

\* processSingleCategory (aiProcessor.js lines 139-174): without a prompt it
\* returns on line 145; with one, callGeminiAPI (line 162) runs when
\* validatePromptSize, which reads the length of the prompt text, accepts it
BuildPrompt ==
  /\ pc = "returned" /\ promptIdx <= Len(questionCategories)
  /\ Len(byCategory[PromptCategory].clusters) > 0
  /\ \E valid \in BOOLEAN :
       LET built == buildCategoryPrompt(byCategory[PromptCategory])
       IN  /\ byCategory' = [byCategory EXCEPT ![PromptCategory].clusters = built.after]
           /\ prompts' = [prompts EXCEPT ![PromptCategory] =
                            [state |-> IF built.null THEN "null" ELSE "prompt",
                             enrichedClusters |-> built.enrichedClusters,
                             llmCalled |-> ~built.null /\ valid]]
  /\ promptIdx' = promptIdx + 1
  /\ UNCHANGED <<cleanedData, pc, byLeader, catIdx, clusters, assigned, mergedClusters, again>>

Finish ==
  /\ pc = "returned" /\ promptIdx > Len(questionCategories)
  /\ pc' = "done"
  /\ UNCHANGED <<cleanedData, byCategory, byLeader, catIdx, clusters, assigned,
                 mergedClusters, promptIdx, prompts, again>>

Next ==
  \/ Collect
  \/ SkipCategory \/ ClusterSinglePass \/ PostMerge \/ SortAndTruncate \/ Return
  \/ RunAgain
  \/ SkipPrompt \/ BuildPrompt \/ Finish

Spec == Init /\ [][Next]_vars

(***************************************************************************)
(* What the properties below speak of.                                     *)
(***************************************************************************)
RECURSIVE SumCountsRange(_, _, _)
SumCountsRange(cs, a, b) ==
  IF a > b THEN 0
  ELSE IF a = b THEN cs[a].count
       ELSE SumCountsRange(cs, a, (a + b) \div 2) + SumCountsRange(cs, ((a + b) \div 2) + 1, b)
\* the sum of cluster.count over a cluster list
SumCounts(cs) == SumCountsRange(cs, 1, Len(cs))

\* the headers the records of the runs use, and the categories each feeds
Headers == {HObstacles, HIdeas, HRoleSupport, HTenure, HEmpowerment}
CategoriesOfHeader ==
  [h \in Headers |->
     {questionMappings[k].category : k \in
        {m \in 1..Len(questionMappings) :
           \E q \in 1..Len(questionMappings[m].patterns) :
              PatternTest(questionMappings[m].patterns[q], ToLowerCase(h))}}]

\* no record of the runs has more cells
CellsPerRecord == 3

\* the cells <<record, cell>> of data from which a string is extracted for category
ExtractedCells(data, category) ==
  {rc \in {<<r, c>> : r \in 1..Len(data), c \in 1..CellsPerRecord} :
     /\ ~data[rc[1]].isNull
     /\ rc[2] <= Len(data[rc[1]].cells)
     /\ LET cell == data[rc[1]].cells[rc[2]]
        IN  /\ category \in CategoriesOfHeader[cell.key]
            /\ cell.value.t = "string" /\ cell.value.s # ""}
CellText(data, rc) == data[rc[1]].cells[rc[2]].value.s
\* the fullOriginal strings of the responses of category
OriginalsOf(data, category) ==
  {CellText(data, rc) : rc \in ExtractedCells(data, category)}

\* the clusters a category shows in the aggregate
Emitted(category) == byCategory[category].clusters
NoDuplicates(q) == \A i, j \in 1..Len(q) : q[i] = q[j] => i = j

(***************************************************************************)
(* Properties of the clustering passes.                                    *)
(***************************************************************************)
\* C1: count conservation.  When the single pass and the post-merge pass of
\* a category are done and the list is not yet truncated, the counts of its
\* clusters add up to the category's totalResponses, the number of extracted
\* responses that passed the validity filter.
CountConservation ==
  pc = "sort" => SumCounts(mergedClusters) = byCategory[CurrentCategory].totalResponses

\* the post-merge pass merged clusters of the single pass and left several
CountConservationWitness ==
  /\ pc = "sort"
  /\ Len(mergedClusters) >= 2 /\ Len(mergedClusters) < Len(clusters)
  /\ SumCounts(mergedClusters) >= MinFrequency

\* C2: the single pass puts every response of the category into exactly one
\* cluster, as its seed or as an absorbed member, and the count of a cluster
\* is the number of responses put into it, whether or not examples is full.
SinglePassPartition ==
  pc = "merge" =>
    /\ Len(assigned) = Len(clusters)
    /\ \A i \in 1..Len(byCategory[CurrentCategory].rawResponses) :
         Cardinality({k \in 1..Len(assigned) : i \in assigned[k]}) = 1
    /\ \A k \in 1..Len(clusters) :
         /\ assigned[k] \subseteq 1..Len(byCategory[CurrentCategory].rawResponses)
         /\ clusters[k].count = Cardinality(assigned[k])

\* a cluster that took more responses than examples holds, next to another cluster
SinglePassPartitionWitness ==
  /\ pc = "merge" /\ Len(clusters) >= 2
  /\ \E k \in 1..Len(clusters) :
       /\ clusters[k].count > MaxExamples
       /\ Len(clusters[k].examples) = MaxExamples

\* C3: a cluster never holds more than 8 examples, after the single pass,
\* after the post-merge pass and in the aggregate, and each example is
\* verbatim the string of a cell extracted from the input for the cluster's
\* category.
ExamplesWithin(cs, category) ==
  \A k \in 1..Len(cs) :
    /\ Len(cs[k].examples) <= MaxExamples
    /\ \A e \in 1..Len(cs[k].examples) :
         cs[k].examples[e] \in OriginalsOf(cleanedData, category)
ExamplesCappedAndVerbatim ==
  /\ \A category \in Categories : ExamplesWithin(Emitted(category), category)
  /\ pc = "merge" => ExamplesWithin(clusters, CurrentCategory)
  /\ pc = "sort" => ExamplesWithin(mergedClusters, CurrentCategory)

\* an emitted cluster of more than 8 responses whose examples are full and
\* hold a string that cleaning would change
ExamplesCappedAndVerbatimWitness ==
  /\ pc = "returned"
  /\ \E category \in Categories : \E k \in 1..Len(Emitted(category)) :
       /\ Emitted(category)[k].count > MaxExamples
       /\ Len(Emitted(category)[k].examples) = MaxExamples
       /\ \E e \in 1..MaxExamples :
            Emitted(category)[k].examples[e] # Trim(Emitted(category)[k].examples[e])

\* C4: when aggregateResponses returns, no cluster of the aggregate holds the
\* same string twice in examples.
ExamplesDeduplicated ==
  (pc = "returned" /\ promptIdx = 1) =>
    \A category \in Categories : \A k \in 1..Len(Emitted(category)) :
      NoDuplicates(Emitted(category)[k].examples)

\* C5: once aggregateResponses has returned, no step of the prompt stage
\* changes a cluster of the aggregate.
ClustersImmutable ==
  [][pc = "returned" => \A category \in Categories : Emitted(category)' = Emitted(category)]_vars

\* C6: a null record is not fatal; the call completes and leaves the aggregate
\* of the records that are objects.
WithoutNulls(data) == LET IsObject(r) == ~r.isNull IN SelectSeq(data, IsObject)
NullRecordSkipped ==
  /\ pc # "threw"
  /\ (pc = "cluster" /\ catIdx = 1) =>
       byCategory = CollectRange([cats |-> InitialByCategory, leaders |-> <<>>,
                                  threw |-> FALSE],
                                 WithoutNulls(cleanedData), 1,
                                 Len(WithoutNulls(cleanedData))).cats

\* C7: the six categories are always present in the aggregate; the aggregate
\* of the empty input has clusters = [] and totalResponses = 0 for each of
\* them; whatever the input, a category for which no valid response was
\* extracted ends with clusters = []; and none of this raises.
ConfiguredCategories ==
  {"fulfilling_work", "role_clarity", "obstacles", "empowerment_changes",
   "bold_ideas", "leadership_support"}
NoValidResponse(data, category) ==
  \A text \in OriginalsOf(data, category) : ~isValidTextResponse(Str(text))
EmptyInputIsNoError ==
  /\ DOMAIN byCategory = ConfiguredCategories
  /\ cleanedData = <<>> => pc # "threw"
  /\ pc \in {"returned", "done"} =>
       \A category \in ConfiguredCategories :
         /\ NoValidResponse(cleanedData, category) => Emitted(category) = <<>>
         /\ cleanedData = <<>> =>
              Emitted(category) = <<>> /\ byCategory[category].totalResponses = 0

\* aggregateResponses([]) has returned
EmptyInputIsNoErrorWitness ==
  /\ pc = "returned" /\ cleanedData = <<>>
  /\ \A category \in ConfiguredCategories : Emitted(category) = <<>>

\* C8: the counts of a category's clusters (before truncation) add up to the
\* number of strings extracted for it that, trimmed, are not on the denylist
\* whatever their case and are at least 9 characters long; a category for
\* which no such string was extracted is not clustered at all.
Denylist ==
  {"n/a", "na", "none", "no", "nothing", "nil", "not applicable", "no comment",
   "nope", "nada"}
Denylisted(trimmed) ==
  ToLowerCase(trimmed) \in Denylist \/ AllOf(trimmed, "-") \/ AllOf(trimmed, ".")
Retained(text) == ~Denylisted(Trim(text)) /\ Len(Trim(text)) >= 9
RetainedCells(data, category) ==
  {rc \in ExtractedCells(data, category) : Retained(CellText(data, rc))}
ClusterCap == \A category \in Categories : Len(Emitted(category)) <= MaxClusters

\* the post-merge pass left more than 40 clusters and 40 were emitted
ClusterCapWitness ==
  /\ pc = "cluster" /\ Len(mergedClusters) > MaxClusters
  /\ Len(Emitted("obstacles")) = MaxClusters

\* C10: the step that sorts and truncates leaves the category's clusters in
\* order of non-increasing count, all of them clusters of the list it was
\* given, and no count it dropped is greater than a count it kept.
CountOf(cs, v) == Cardinality({i \in 1..Len(cs) : cs[i].count = v})
DroppedCounts(all, kept) ==
  {v \in {all[i].count : i \in 1..Len(all)} : CountOf(all, v) > CountOf(kept, v)}
OrderedByCount(cs) == \A i, j \in 1..Len(cs) : i < j => cs[i].count >= cs[j].count
TopByCount ==
  [][pc = "sort" =>
       LET kept == byCategory'[CurrentCategory].clusters
       IN  /\ OrderedByCount(kept)
           /\ \A i \in 1..Len(kept) : \E j \in 1..Len(mergedClusters) : kept[i] = mergedClusters[j]
           /\ \A v \in DroppedCounts(mergedClusters, kept) :
                \A i \in 1..Len(kept) : v <= kept[i].count]_vars

\* more than 40 clusters, the largest of them last after the post-merge pass
\* and first in the aggregate
TopByCountWitness ==
  /\ pc = "cluster" /\ Len(mergedClusters) > MaxClusters
  /\ mergedClusters[Len(mergedClusters)].count > mergedClusters[1].count
  /\ Len(Emitted("obstacles")) = MaxClusters
  /\ Emitted("obstacles")[1].count = mergedClusters[Len(mergedClusters)].count

ValidResponsesFor(data, category) ==
  LET valid == {rc \in ExtractedCells(data, category) :
                  isValidTextResponse(Str(CellText(data, rc)))}
      order == Ascending({rc[1] * (CellsPerRecord + 1) + rc[2] : rc \in valid})
      At(k) == <<order[k] \div (CellsPerRecord + 1), order[k] % (CellsPerRecord + 1)>>
      RawOf(rc) ==
        LET cleanText == enhancedCleanTextResponse(CellText(data, rc))
        IN  [text |-> cleanText,
             normalizedText |-> normalizeForClustering(cleanText),
             leader |-> extractLeaderName(data[rc[1]]._steamLeader),
             department |-> IF data[rc[1]]._department # "" THEN data[rc[1]]._department
                            ELSE "Unknown",
             fullOriginal |-> CellText(data, rc),
             semanticTokens |-> extractSemanticTokens(cleanText)]
  IN  [k \in 1..Len(order) |-> RawOf(At(k))]
HoldsWord(text, words) == Range(SplitWs(ToLowerCase(text))) \cap words # {}
IsScenario(data) ==
  /\ Len(data) = ScenarioSize
  /\ \A r \in 1..Len(data) :
       /\ ~data[r].isNull /\ Len(data[r].cells) = 1
       /\ data[r].cells[1].key = HObstacles
       /\ isValidTextResponse(data[r].cells[1].value)
       /\ \/ HoldsWord(data[r].cells[1].value.s, {"bandwidth", "workload"})
          \/ HoldsWord(data[r].cells[1].value.s, {"parking"})
  /\ Cardinality({r \in 1..Len(data) :
                    HoldsWord(data[r].cells[1].value.s, {"bandwidth", "workload"})})
       = ScenarioOnTopic
WorkloadScenario ==
  (pc = "returned" /\ promptIdx = 1 /\ IsScenario(cleanedData)) =>
    \E k \in 1..Len(Emitted("obstacles")) :
      /\ IndexOfFrom(Emitted("obstacles")[k].theme, "workload", 1) > 0
      /\ Emitted("obstacles")[k].count >= MinFrequency
      /\ Emitted("obstacles")[k].count <= ScenarioOnTopic

\* C14: a response whose text holds the word "empowered" and no keyword of
\* another theme dictionary is labelled autonomy_empowerment: the cluster it
\* seeds carries that theme.
HoldsAsWord(text, w) ==
  LET lower == ToLowerCase(text)
  IN  \E i \in 1..Len(lower) :
        OccursAt(lower, w, i) /\ Boundary(lower, i) /\ Boundary(lower, i + Len(w))
OtherThemeKeywords ==
  UNION {Range(themeKeywords[k][2]) :
           k \in {m \in 1..Len(themeKeywords) : themeKeywords[m][1] # "autonomy_empowerment"}}
SeedOf(k) == byCategory[CurrentCategory].rawResponses[Least(assigned[k])]
EmpoweredTheme ==
  pc = "merge" =>
    \A k \in 1..Len(clusters) :
      (/\ HoldsAsWord(SeedOf(k).text, "empowered")
       /\ \A w \in OtherThemeKeywords : ~HoldsAsWord(SeedOf(k).text, w))
        => clusters[k].theme = "autonomy_empowerment"

\* C15: the aggregate holds clusters of any count from 1 on; the prompt of a
\* category shows exactly its clusters of count 20 or more, in their order;
\* a category without such a cluster gets no prompt (buildCategoryPrompt
\* returns null) and no LLM call.
ThemeAndCount(cs) == [i \in 1..Len(cs) |-> <<cs[i].theme, cs[i].count>>]
Reportable(category) ==
  LET AtLeastTwenty(c) == c.count >= 20 IN SelectSeq(Emitted(category), AtLeastTwenty)
ScoreAbove(response, otherResponse) ==
  LET j == calculateJaccardSimilarity(response.normalizedText, otherResponse.normalizedText)
      s == calculateSemanticSimilarity(response.semanticTokens, otherResponse.semanticTokens)
      t == calculateThemeSimilarity(response.text, otherResponse.text)
  IN  20 * (3 * j[1] * s[2] * t[2] + 4 * s[1] * j[2] * t[2] + 3 * t[1] * j[2] * s[2])
        > 90 * j[2] * s[2] * t[2]
HeldEarlier(k) == UNION {assigned[m] : m \in 1..(k - 1)}
MembersByRule(k) ==
  LET sorted == byCategory[CurrentCategory].rawResponses
      free == (1..Len(sorted)) \ HeldEarlier(k)
      seed == Least(free)
  IN  {seed} \cup {i \in free : i > seed /\ ScoreAbove(sorted[seed], sorted[i])}
InOrder(S) == [n \in 1..Cardinality(S) |-> CHOOSE i \in S : Cardinality({m \in S : m < i}) = n - 1]
AbsorptionRule ==
  pc = "merge" =>
    \A k \in 1..Len(clusters) :
      /\ assigned[k] = MembersByRule(k)
      /\ clusters[k].count = Cardinality(assigned[k])
      /\ LET members == InOrder(assigned[k])
             stored == IF Len(members) < 8 THEN Len(members) ELSE 8
         IN  clusters[k].examples
               = [n \in 1..stored |->
                    byCategory[CurrentCategory].rawResponses[members[n]].fullOriginal]

\* C17: the post-merge pass takes the clusters in seed order; a cluster is
\* merged into the earliest earlier cluster, itself not merged, whose theme
\* words (the label split at underscores) overlap with its own by a Jaccard
\* index strictly above 0.6, and into no other; the outcome has the summed
\* count, leaderCount and departmentCount of the clusters merged, and as
\* examples the first 8 distinct strings of their examples in that order; a
\* cluster nothing is merged into keeps its examples.
ThemeWords(k) == Range(SplitChar(clusters[k].theme, "_"))
OverlapAbove(h, k) ==
  5 * Cardinality(ThemeWords(h) \cap ThemeWords(k))
    > 3 * Cardinality(ThemeWords(h) \cup ThemeWords(k))
RECURSIVE KeptUpTo(_)
KeptUpTo(n) ==
  IF n = 0 THEN {}
  ELSE LET kept == KeptUpTo(n - 1)
       IN  IF \E h \in kept : OverlapAbove(h, n) THEN kept ELSE kept \cup {n}
MergedInto(h, kept) ==
  {h} \cup {k \in (h + 1)..Len(clusters) :
             /\ k \notin kept
             /\ h = Least({g \in kept : g < k /\ OverlapAbove(g, k)})}
RECURSIVE ExamplesOf(_, _)
ExamplesOf(group, n) ==
  IF n = 0 THEN <<>> ELSE ExamplesOf(group, n - 1) \o clusters[group[n]].examples
RECURSIVE SumOver(_, _, _)
SumOver(group, n, field) ==
  IF n = 0 THEN 0 ELSE SumOver(group, n - 1, field) + clusters[group[n]][field]
PostMergeRule ==
  (pc = "sort" /\ Len(clusters) >= 2) =>
    LET kept == KeptUpTo(Len(clusters))
        heads == InOrder(kept)
    IN  /\ Len(mergedClusters) = Len(heads)
        /\ \A r \in 1..Len(heads) :
             LET group == InOrder(MergedInto(heads[r], kept))
                 distinct == Dedup(ExamplesOf(group, Len(group)))
             IN  /\ mergedClusters[r].count = SumOver(group, Len(group), "count")
                 /\ mergedClusters[r].leaderCount = SumOver(group, Len(group), "leaderCount")
                 /\ mergedClusters[r].departmentCount
                      = SumOver(group, Len(group), "departmentCount")
                 /\ mergedClusters[r].examples
                      = IF Len(group) = 1 THEN clusters[heads[r]].examples
                        ELSE SubSeq(distinct, 1, IF Len(distinct) < 8 THEN Len(distinct) ELSE 8)

\* the pass has merged three clusters, not all of one label, into one that
\* has leaders counted
PostMergeRuleWitness ==
  /\ pc = "sort" /\ Len(clusters) >= 3
  /\ \E r \in 1..Len(mergedClusters) :
       LET kept == KeptUpTo(Len(clusters))
           group == MergedInto(InOrder(kept)[r], kept)
       IN  /\ Cardinality(group) >= 3
           /\ \E k \in group : clusters[k].theme # clusters[Least(group)].theme
           /\ mergedClusters[r].leaderCount > 0

\* C18: a cluster that the post-merge pass built by merging has the label of
\* the cluster it started from or of a cluster merged into it that was, when
\* it was merged, at least as large as what had been accumulated until then:
\* never the label of a cluster smaller than the accumulated cluster.
MergedLabel ==
  (pc = "sort" /\ Len(clusters) >= 2) =>
    LET kept == KeptUpTo(Len(clusters))
        heads == InOrder(kept)
    IN  \A r \in 1..Len(heads) :
          LET group == InOrder(MergedInto(heads[r], kept))
          IN  \E n \in 1..Len(group) :
                /\ mergedClusters[r].theme = clusters[group[n]].theme
                /\ n = 1 \/ clusters[group[n]].count >= SumOver(group, n - 1, "count")

\* C19: the single pass takes its seeds in order of descending length of the
\* cleaned text: the seed of a cluster is at least as long as every response
\* the cluster absorbed and as the seed of every later cluster; the first
\* example of a cluster is the full original of its seed and the theme of the
\* cluster is the theme label of its seed.
Held(i) == byCategory[CurrentCategory].rawResponses[i]
SeedOrder ==
  pc = "merge" =>
    \A k \in 1..Len(clusters) :
      /\ \A i \in assigned[k] : Len(SeedOf(k).text) >= Len(Held(i).text)
      /\ \A later \in (k + 1)..Len(clusters) :
           Len(SeedOf(k).text) >= Len(SeedOf(later).text)
      /\ clusters[k].examples[1] = SeedOf(k).fullOriginal
      /\ clusters[k].theme = enhancedExtractTheme(SeedOf(k).text)

\* the responses were collected in another order than by length; a cluster
\* absorbed a response shorter than its seed, and a later cluster has a
\* shorter seed
SeedOrderWitness ==
  /\ pc = "merge"
  /\ ValidResponsesFor(cleanedData, CurrentCategory)
       # byCategory[CurrentCategory].rawResponses
  /\ \E k \in 1..Len(clusters) :
       /\ \E i \in assigned[k] : Len(Held(i).text) < Len(SeedOf(k).text)
       /\ \E later \in (k + 1)..Len(clusters) :
            Len(SeedOf(later).text) < Len(SeedOf(k).text)

\* C20: cleaning takes out the fillers uh, um and er where they stand as whole
\* words and leaves one separator for every run of whitespace: the words of
\* the cleaned text are the words of the original after the fillers are
\* taken out, none of them joined to its neighbour.
WordsOf(text) == LET IsWord(w) == w # "" IN SelectSeq(SplitWs(text), IsWord)
WithoutFillers(text) == RemoveFiller(RemoveFiller(RemoveFiller(text, "u", "h"), "u", "m"), "e", "r")
WordsStaySeparate ==
  \A category \in Categories :
    \A i \in 1..Len(byCategory[category].rawResponses) :
      LET response == byCategory[category].rawResponses[i]
      IN  Len(response.fullOriginal) <= 500 =>
            WordsOf(response.text) = WordsOf(WithoutFillers(response.fullOriginal))

\* C21: the cleaned text has at most 500 characters. A text that after the
\* fillers are stripped has more than 500 is cut just after the last '.',
\* '!' or '?' among its first 500 characters when that one stands after
\* character 400, and to its first 500 characters otherwise; a text of 500
\* characters or fewer is left as it is.
LengthCap ==
  \A category \in Categories :
    \A i \in 1..Len(byCategory[category].rawResponses) :
      LET response == byCategory[category].rawResponses[i]
          stripped == Trim(StripFillers(Trim(response.fullOriginal)))
          ends == {q \in 1..500 : q <= Len(stripped) /\ Ch(stripped, q) \in {".", "!", "?"}}
      IN  /\ Len(response.text) <= 500
          /\ Len(stripped) <= 500 => response.text = stripped
          /\ Len(stripped) > 500 =>
               response.text = IF ends # {} /\ Greatest(ends) > 400
                               THEN SubSeq(stripped, 1, Greatest(ends))
                               ELSE SubSeq(stripped, 1, 500)

\* C22: a theme scores the number of its keywords that are among the words of
\* the lowercased response, plus 1 when there is one; when a theme scores
\* above zero the label is the highest-scoring theme, the earliest in the
\* dictionary among equals, so never a theme with fewer distinct keywords
\* matched than another.
KeywordsPresent(t, text) ==
  Cardinality({themeKeywords[t][2][n] : n \in 1..Len(themeKeywords[t][2])}
                \cap Range(SplitWs(ToLowerCase(text))))
ScoreByRule(t, text) ==
  KeywordsPresent(t, text) + (IF KeywordsPresent(t, text) > 0 THEN 1 ELSE 0)
ThemeScoring ==
  pc = "merge" =>
    \A k \in 1..Len(clusters) :
      LET text == SeedOf(k).text
          themes == 1..Len(themeKeywords)
          top == Greatest({ScoreByRule(t, text) : t \in themes})
      IN  top > 0 =>
            /\ clusters[k].theme
                 = themeKeywords[Least({t \in themes : ScoreByRule(t, text) = top})][1]
            /\ \A t \in themes, u \in themes :
                 clusters[k].theme = themeKeywords[t][1]
                   => KeywordsPresent(t, text) >= KeywordsPresent(u, text)

\* C23: the fallback label is used only for a response none of whose words is
\* a theme keyword; it is the first two words longer than 4 characters and
\* outside the stoplist, joined by an underscore, the only such word when
\* there is one, and "other" when there is none; a label is never empty.
FallbackWords(text) ==
  LET Counts(w) ==
        /\ Len(w) > 4
        /\ w \notin {"would", "could", "should", "more", "better", "need", "want",
                      "really", "think", "feel"}
  IN  SelectSeq(SplitWs(ToLowerCase(text)), Counts)
NoKeyword(text) == \A t \in 1..Len(themeKeywords) : KeywordsPresent(t, text) = 0
FallbackTheme ==
  pc = "merge" =>
    \A k \in 1..Len(clusters) :
      LET text == SeedOf(k).text
          found == FallbackWords(text)
      IN  /\ clusters[k].theme # ""
          /\ ~NoKeyword(text) =>
               \E t \in 1..Len(themeKeywords) : clusters[k].theme = themeKeywords[t][1]
          /\ NoKeyword(text) =>
               clusters[k].theme = IF Len(found) = 0 THEN "other"
                                   ELSE IF Len(found) = 1 THEN found[1]
                                   ELSE found[1] \o "_" \o found[2]

\* a response without a theme keyword that starts with a stoplist word longer
\* than 4 characters seeds a cluster labelled with two of its later words
FallbackThemeWitness ==
  /\ pc = "merge"
  /\ \E k \in 1..Len(clusters) :
       LET text == SeedOf(k).text
           first == SplitWs(ToLowerCase(text))[1]
       IN  /\ NoKeyword(text)
           /\ Len(first) > 4 /\ first \in meaningfulStoplist
           /\ Len(FallbackWords(text)) >= 2
           /\ clusters[k].theme # "other"

\* C24: the name of a semantic category is among the tokens of a response
\* exactly when a keyword of the category stands as a whole word in the
\* lowercased text; the other tokens are at most 3 words of the text longer
\* than 5 characters and outside the stoplist; no token occurs twice.
CategoryNames == {semanticCategories[c][1] : c \in 1..Len(semanticCategories)}
SemanticTokens ==
  pc = "merge" =>
    \A i \in 1..Len(byCategory[CurrentCategory].rawResponses) :
      LET text == Held(i).text
          tokens == Held(i).semanticTokens
          others == Range(tokens) \ CategoryNames
      IN  /\ \A c \in 1..Len(semanticCategories) :
               semanticCategories[c][1] \in Range(tokens)
                 <=> \E n \in 1..Len(semanticCategories[c][2]) :
                       HoldsAsWord(text, semanticCategories[c][2][n])
          /\ Cardinality(Range(tokens)) = Len(tokens)
          /\ Cardinality(others) <= 3
          /\ \A w \in others :
               /\ Len(w) > 5
               /\ w \notin {"better", "would", "could", "should", "really", "think"}
               /\ w \in Range(SplitWs(ToLowerCase(text)))

\* C25: after the post-merge pass no two clusters of the category have the
\* same theme label, and single-pass clusters of one label are in one merged
\* cluster.
MergedGroups ==
  LET kept == KeptUpTo(Len(clusters)) IN {MergedInto(h, kept) : h \in kept}
LabelsDistinct ==
  pc = "sort" =>
    /\ \A r \in 1..Len(mergedClusters), q \in 1..Len(mergedClusters) :
         mergedClusters[r].theme = mergedClusters[q].theme => r = q
    /\ Len(clusters) >= 2 =>
         \A group \in MergedGroups :
           \A k \in group, m \in 1..Len(clusters) :
             clusters[k].theme = clusters[m].theme => m \in group

\* two single-pass clusters of one label are merged, the merged cluster has
\* taken the label of another cluster merged into it, and a second cluster
\* is left beside it
LabelsDistinctWitness ==
  /\ pc = "sort" /\ Len(mergedClusters) >= 2
  /\ \E k \in 1..Len(clusters), m \in 1..Len(clusters) :
       /\ k < m /\ clusters[k].theme = clusters[m].theme
       /\ mergedClusters[1].theme # clusters[1].theme

\* C26: two valid responses of a category with the same original text are
\* counted in one cluster of the single pass, hence in one cluster of the
\* post-merge pass, whatever else was answered and in whatever order.
SameTextSameCluster ==
  /\ pc = "merge" =>
       \A i \in 1..Len(byCategory[CurrentCategory].rawResponses) :
         \A n \in 1..Len(byCategory[CurrentCategory].rawResponses) :
           Held(i).fullOriginal = Held(n).fullOriginal
             => \E k \in 1..Len(clusters) : {i, n} \subseteq assigned[k]
  /\ (pc = "sort" /\ Len(clusters) >= 2) =>
       /\ \A k \in 1..Len(clusters) : \E group \in MergedGroups : k \in group
       /\ Cardinality(MergedGroups) = Len(mergedClusters)

\* a response without semantic tokens was given twice, not in adjacent
\* records, among responses that went to another cluster
SameTextSameClusterWitness ==
  /\ pc = "merge" /\ Len(clusters) >= 2
  /\ \E a \in 1..Len(cleanedData), b \in 1..Len(cleanedData) :
       /\ b > a + 1
       /\ cleanedData[a].cells = cleanedData[b].cells
       /\ cleanedData[a + 1].cells # cleanedData[a].cells
  /\ \E i \in 1..Len(byCategory[CurrentCategory].rawResponses) :
       \E n \in 1..Len(byCategory[CurrentCategory].rawResponses) :
         /\ i # n /\ Held(i).fullOriginal = Held(n).fullOriginal
         /\ Held(i).semanticTokens = <<>>

\* C27: the leaderCount of a single-pass cluster is the number of distinct
\* leader names, null left out, of the responses assigned to the cluster; a
\* cluster of responses without a leader has leaderCount 0.
LeadersCounted ==
  pc = "merge" =>
    \A k \in 1..Len(clusters) :
      clusters[k].leaderCount = Cardinality({Held(i).leader : i \in assigned[k]} \ {""})

\* C28: the semanticSignature of a cluster holds exactly the semantic tokens
\* of the responses counted in it: those of its seed, of the responses it
\* absorbed, and of the responses of every cluster merged into it.
TokensOfClusters(group) ==
  UNION {Range(Held(i).semanticTokens) : i \in UNION {assigned[k] : k \in group}}
SignatureIsUnion ==
  pc = "sort" =>
    LET kept == KeptUpTo(Len(clusters))
        heads == InOrder(kept)
    IN  \A r \in 1..Len(heads) :
          Range(mergedClusters[r].semanticSignature)
            = TokensOfClusters(MergedInto(heads[r], kept))

\* C29: in the returned aggregate every category has totalResponses equal to
\* validCount and at most originalCount, clusteredCount equal to the number
\* of its clusters, and cluster counts that sum to at most totalResponses,
\* to exactly totalResponses when the cut to 40 clusters dropped none.
StatsConsistent ==
  /\ pc = "returned" =>
       \A category \in Categories :
         LET data == byCategory[category]
         IN  /\ data.totalResponses = data.processingStats.validCount
             /\ data.processingStats.validCount <= data.processingStats.originalCount
             /\ data.processingStats.clusteredCount = Len(data.clusters)
             /\ SumCounts(data.clusters) <= data.totalResponses
             /\ Len(data.clusters) < 40 => SumCounts(data.clusters) = data.totalResponses
  /\ (pc = "cluster" /\ catIdx > 1) =>
       LET data == byCategory[questionMappings[catIdx - 1].category]
       IN  (data.totalResponses > 0 /\ Len(mergedClusters) <= 40)
             => SumCounts(data.clusters) = data.totalResponses

\* the aggregate is returned with a category that had an invalid answer and
\* has two clusters or more
StatsConsistentWitness ==
  /\ pc = "returned"
  /\ \E category \in Categories :
       /\ byCategory[category].processingStats.originalCount
            > byCategory[category].processingStats.validCount
       /\ Len(byCategory[category].clusters) >= 2

\* C30: the avgLength of a single-pass cluster is the arithmetic mean of the
\* lengths of the cleaned texts of the responses assigned to it.
RECURSIVE TotalLength(_)
TotalLength(members) ==
  IF members = {} THEN 0
  ELSE Len(Held(Least(members)).text) + TotalLength(members \ {Least(members)})
AvgLengthIsMean ==
  pc = "merge" =>
    \A k \in 1..Len(clusters) :
      clusters[k].avgLength[1] * Cardinality(assigned[k])
        = clusters[k].avgLength[2] * TotalLength(assigned[k])

====
